---- MODULE Spec2Model ----
(***************************************************************************)
(* Tree-of-Thoughts beam search for the Game of 24 (two notebook variants: *)
(* "heu" = Tree-of-thoughts_heu(gpt-4o-mini).ipynb, "cot" =                *)
(* Tree-of-thoughts_CoT(gemini).ipynb).                                    *)
(*                                                                         *)
(* Numbers are exact rationals <<num, den>> (den > 0, lowest terms); the   *)
(* expressions the model draws are chosen so that Python's float           *)
(* arithmetic orders and compares them the same way.  A problem is the     *)
(* list of its integers (the result of list(map(int, problem.split()))).   *)
(***************************************************************************)
EXTENDS Integers, Sequences, FiniteSets, TLC

----------------------------------------------------------------------------
(* Rational arithmetic (Python float arithmetic of Equation.compute and    *)
(* compute_score on the values of the model).                              *)

Abs(x) == IF x < 0 THEN -x ELSE x

RECURSIVE GCD(_, _)
GCD(a, b) == IF b = 0 THEN a ELSE GCD(b, a % b)

Rat(n, d) ==
    LET g == GCD(Abs(n), Abs(d))
        s == IF d < 0 THEN -1 ELSE 1
    IN  <<(s * n) \div g, (s * d) \div g>>

RInt(n) == <<n, 1>>
RAdd(a, b) == Rat(a[1] * b[2] + b[1] * a[2], a[2] * b[2])
RSub(a, b) == Rat(a[1] * b[2] - b[1] * a[2], a[2] * b[2])
RMul(a, b) == Rat(a[1] * b[1], a[2] * b[2])
RDiv(a, b) == Rat(a[1] * b[2], a[2] * b[1])
RAbs(a) == <<Abs(a[1]), a[2]>>
RLess(a, b) == a[1] * b[2] < b[1] * a[2]
RGeq(a, b) == a[1] * b[2] >= b[1] * a[2]

----------------------------------------------------------------------------
(* Tokens: TokenType = Union[float, OperatorType].                         *)

Lit(n) == [t |-> "float", n |-> n, o |-> ""]
Op(o) == [t |-> "op", n |-> 0, o |-> o]
IsFloat(tok) == tok.t = "float"

(* op_funcs[token](a, b); operator.truediv raises ZeroDivisionError.       *)
op_funcs(o, a, b) ==
    CASE o = "+" -> RAdd(a, b)
      [] o = "-" -> RSub(a, b)
      [] o = "*" -> RMul(a, b)
      [] o = "/" -> RDiv(a, b)

Value(v) == [ok |-> TRUE, val |-> v, err |-> ""]
Raise(e) == [ok |-> FALSE, val |-> <<0, 1>>, err |-> e]

(* An evaluation that takes the value popped first as the left operand.    *)
RECURSIVE compute_popping_left_first(_, _, _)
compute_popping_left_first(tokens, i, stack) ==
    IF i > Len(tokens)
    THEN IF Len(stack) = 0
         THEN Raise("IndexError('list index out of range')")
         ELSE Value(stack[1])
    ELSE IF IsFloat(tokens[i])
         THEN compute_popping_left_first(tokens, i + 1, Append(stack, RInt(tokens[i].n)))
         ELSE IF Len(stack) < 2
              THEN Raise("IndexError('pop from empty list')")
              ELSE LET a == stack[Len(stack)]
                       b == stack[Len(stack) - 1]
                       rest == SubSeq(stack, 1, Len(stack) - 2)
                   IN  IF tokens[i].o = "/" /\ b[1] = 0
                       THEN Raise("ZeroDivisionError('float division by zero')")
                       ELSE compute_popping_left_first(tokens, i + 1,
                                        Append(rest, op_funcs(tokens[i].o, a, b)))

(* Equation.compute: the loop over self.tokens from position i with the    *)
(* given stack, then `return stack[0]`.                                    *)
RECURSIVE computeFrom(_, _, _)
computeFrom(tokens, i, stack) ==
    IF i > Len(tokens)
    THEN IF Len(stack) = 0
         THEN Raise("IndexError('list index out of range')")
         ELSE Value(stack[1])
    ELSE IF IsFloat(tokens[i])
         THEN computeFrom(tokens, i + 1, Append(stack, RInt(tokens[i].n)))
         ELSE IF Len(stack) < 2
              THEN Raise("IndexError('pop from empty list')")
              ELSE LET b == stack[Len(stack)]
                       a == stack[Len(stack) - 1]
                       rest == SubSeq(stack, 1, Len(stack) - 2)
                   IN  IF tokens[i].o = "/" /\ b[1] = 0
                       THEN Raise("ZeroDivisionError('float division by zero')")
                       ELSE computeFrom(tokens, i + 1,
                                        Append(rest, op_funcs(tokens[i].o, a, b)))

compute(tokens) == computeFrom(tokens, 1, <<>>)

----------------------------------------------------------------------------
(* Candidate / ScoredCandidate (NamedTuple candidate, score, feedback).    *)
(* score None is NoScore; feedback is a record: kind "None", "MustUseAll"  *)
(* ("The equation must use all 4 numbers exactly once."), "Result"         *)
(* (f"Result: {result}") or "Invalid" (f"Invalid equation. Error: ...").   *)

NoScore == <<0, 0>>
NoFeedback == [kind |-> "None", val |-> <<0, 1>>, err |-> ""]

Candidate(tokens) == [candidate |-> tokens, score |-> NoScore, feedback |-> NoFeedback]

ScoredCandidate(tokens, score, feedback) ==
    [candidate |-> tokens, score |-> score, feedback |-> feedback]

(* Python's sorted() on a list of numbers, ascending.                      *)
RECURSIVE InsertAsc(_, _)
InsertAsc(x, s) ==
    IF s = <<>> THEN <<x>>
    ELSE IF x < Head(s) THEN <<x>> \o s
         ELSE <<Head(s)>> \o InsertAsc(x, Tail(s))

(* The list in the order it is given.                                      *)
as_given(s) == s

RECURSIVE sorted(_)
sorted(s) == IF s = <<>> THEN <<>> ELSE InsertAsc(s[Len(s)], sorted(SubSeq(s, 1, Len(s) - 1)))

(* [token for token in tokens if isinstance(token, float)]                 *)
RECURSIVE used_numbers(_)
used_numbers(tokens) ==
    IF tokens = <<>> THEN <<>>
    ELSE IF IsFloat(Head(tokens))
         THEN <<Head(tokens).n>> \o used_numbers(Tail(tokens))
         ELSE used_numbers(Tail(tokens))

Target == 24

(* A scoring that evaluates the expression before it looks at the          *)
(* operands.                                                               *)
compute_score_evaluating_first(numbers, cand) ==
    LET r == compute(cand.candidate)
    IN  IF ~r.ok
        THEN ScoredCandidate(cand.candidate, <<0, 1>>,
                             [kind |-> "Invalid", val |-> <<0, 1>>, err |-> r.err])
        ELSE IF sorted(used_numbers(cand.candidate)) # sorted(numbers)
             THEN ScoredCandidate(cand.candidate, <<0, 1>>,
                                  [kind |-> "MustUseAll", val |-> <<0, 1>>, err |-> ""])
             ELSE ScoredCandidate(
                      cand.candidate,
                      RDiv(RInt(1), RAdd(RInt(1), RAbs(RSub(RInt(Target), r.val)))),
                      [kind |-> "Result", val |-> r.val, err |-> ""])

(* A scoring without the except clause: a failed evaluation is not turned  *)
(* into a score.                                                           *)
compute_score_without_except(numbers, cand) ==
    IF sorted(used_numbers(cand.candidate)) # sorted(numbers)
    THEN ScoredCandidate(cand.candidate, <<0, 1>>,
                         [kind |-> "MustUseAll", val |-> <<0, 1>>, err |-> ""])
    ELSE LET r == compute(cand.candidate)
         IN  IF r.ok
             THEN ScoredCandidate(
                      cand.candidate,
                      RDiv(RInt(1), RAdd(RInt(1), RAbs(RSub(RInt(Target), r.val)))),
                      [kind |-> "Result", val |-> r.val, err |-> ""])
             ELSE ScoredCandidate(cand.candidate, NoScore,
                                  [kind |-> "Raised", val |-> <<0, 1>>, err |-> r.err])

(* A scoring that halves the score of a candidate that already has one.    *)
compute_score_discounting_rescored(numbers, cand) ==
    LET discount == IF cand.score = NoScore THEN <<1, 1>> ELSE <<1, 2>>
    IN  IF sorted(used_numbers(cand.candidate)) # sorted(numbers)
        THEN ScoredCandidate(cand.candidate, <<0, 1>>,
                             [kind |-> "MustUseAll", val |-> <<0, 1>>, err |-> ""])
        ELSE LET r == compute(cand.candidate)
             IN  IF r.ok
                 THEN ScoredCandidate(
                          cand.candidate,
                          RMul(discount,
                               RDiv(RInt(1), RAdd(RInt(1), RAbs(RSub(RInt(Target), r.val))))),
                          [kind |-> "Result", val |-> r.val, err |-> ""])
                 ELSE ScoredCandidate(cand.candidate, <<0, 1>>,
                                      [kind |-> "Invalid", val |-> <<0, 1>>, err |-> r.err])

(* A scoring on the signed difference 24 - result instead of its absolute  *)
(* value (1 / 0 raises inside the try).                                    *)
compute_score_signed(numbers, cand) ==
    IF sorted(used_numbers(cand.candidate)) # sorted(numbers)
    THEN ScoredCandidate(cand.candidate, <<0, 1>>,
                         [kind |-> "MustUseAll", val |-> <<0, 1>>, err |-> ""])
    ELSE LET r == compute(cand.candidate)
             d == IF r.ok THEN RAdd(RInt(1), RSub(RInt(Target), r.val)) ELSE <<0, 1>>
         IN  IF r.ok /\ d[1] # 0
             THEN ScoredCandidate(cand.candidate, RDiv(RInt(1), d),
                                  [kind |-> "Result", val |-> r.val, err |-> ""])
             ELSE ScoredCandidate(cand.candidate, <<0, 1>>,
                                  [kind |-> "Invalid", val |-> <<0, 1>>,
                                   err |-> IF r.ok THEN "ZeroDivisionError('division by zero')"
                                           ELSE r.err])

(* compute_score(problem, candidate), numbers = the problem's integers.    *)
compute_score(numbers, cand) ==
    IF sorted(used_numbers(cand.candidate)) # sorted(numbers)
    THEN ScoredCandidate(cand.candidate, <<0, 1>>,
                         [kind |-> "MustUseAll", val |-> <<0, 1>>, err |-> ""])
    ELSE LET r == compute(cand.candidate)
         IN  IF r.ok
             THEN ScoredCandidate(
                      cand.candidate,
                      RDiv(RInt(1), RAdd(RInt(1), RAbs(RSub(RInt(Target), r.val)))),
                      [kind |-> "Result", val |-> r.val, err |-> ""])
             ELSE ScoredCandidate(cand.candidate, <<0, 1>>,
                                  [kind |-> "Invalid", val |-> <<0, 1>>, err |-> r.err])

(* A check that lets every equation through.                               *)
any_equation(tokens, numbers) == TRUE

(* is_valid_equation(tokens, numbers)                                      *)
is_valid_equation(tokens, numbers) == sorted(used_numbers(tokens)) = sorted(numbers)

----------------------------------------------------------------------------
(* generate_heuristic_candidates(numbers): itertools.permutations of the   *)
(* four positions in lexicographic order, itertools.product of the         *)
(* operators with the last one varying fastest.                            *)

Operators == <<"+", "-", "*", "/">>

RECURSIVE permutations(_)
permutations(s) ==
    IF Len(s) <= 1 THEN <<s>>
    ELSE LET without(i) == SubSeq(s, 1, i - 1) \o SubSeq(s, i + 1, Len(s))
             RECURSIVE prefixAll(_, _)
             prefixAll(x, ps) ==
                 IF ps = <<>> THEN <<>> ELSE <<<<x>> \o Head(ps)>> \o prefixAll(x, Tail(ps))
             RECURSIVE from(_)
             from(i) ==
                 IF i > Len(s) THEN <<>>
                 ELSE prefixAll(s[i], permutations(without(i))) \o from(i + 1)
         IN  from(1)

op_combos == [c \in 1..64 |->
                <<Operators[((c - 1) \div 16) + 1],
                  Operators[(((c - 1) \div 4) % 4) + 1],
                  Operators[((c - 1) % 4) + 1]>>]

HeuristicTolerance == 10
HeuristicLimit == 10

(* Basic RPN format: a b op1 c op2 d op3                                   *)
LeftDeep(nums, ops) ==
    <<Lit(nums[1]), Lit(nums[2]), Op(ops[1]), Lit(nums[3]), Op(ops[2]), Lit(nums[4]), Op(ops[3])>>

(* A filter that keeps every expression that evaluates.                    *)
keeps_evaluated(tokens) == compute(tokens).ok

(* `if math.isfinite(val) and abs(val - 24) < 10`, exceptions skipped.     *)
HeuristicKeeps(tokens) ==
    LET r == compute(tokens)
    IN  r.ok /\ RLess(RAbs(RSub(r.val, RInt(Target))), RInt(HeuristicTolerance))

RECURSIVE heuristic_equations_from(_, _)
heuristic_equations_from(perms, i) ==
    IF i > Len(perms) THEN <<>>
    ELSE SelectSeq([c \in 1..64 |-> LeftDeep(perms[i], op_combos[c])], HeuristicKeeps)
         \o heuristic_equations_from(perms, i + 1)

generate_heuristic_candidates(numbers) ==
    LET equations == heuristic_equations_from(permutations(numbers), 1)
    IN  SubSeq(equations, 1, IF Len(equations) < HeuristicLimit
                             THEN Len(equations) ELSE HeuristicLimit)

(* The problems of the model, and the heuristic candidates of each         *)
(* (generate_heuristic_candidates is a pure function of the numbers).      *)
Problems == {<<1, 2, 12, 13>>, <<1, 1, 1, 2>>}

HeuristicTable == [p \in Problems |-> generate_heuristic_candidates(p)]

heuristic_equations(numbers) ==
    IF numbers \in Problems THEN HeuristicTable[numbers]
    ELSE generate_heuristic_candidates(numbers)

----------------------------------------------------------------------------
(* Run configuration: a Python dict is a function on its keys.             *)

Get(d, key, default) == IF key \in DOMAIN d THEN d[key] ELSE default

DefaultMaxDepthHeu == 10
DefaultMaxDepthCoT == 50
DefaultK == 5
DefaultBeamSize == 3
DefaultThreshold == <<9, 10>>
BatchThreshold == <<99, 100>>
DefaultRecursionLimit == 25
BatchRecursionLimitCoT == 100

(* _ensure_configurable(config): max_depth, k and beam_size are read from  *)
(* config["configurable"], threshold from the top level of config.         *)
_ensure_configurable(v, cfg) ==
    LET configurable == Get(cfg, "configurable", <<>>)
        own == [max_depth |-> Get(configurable, "max_depth",
                                  IF v = "heu" THEN DefaultMaxDepthHeu ELSE DefaultMaxDepthCoT),
                threshold |-> Get(cfg, "threshold", DefaultThreshold),
                k |-> Get(configurable, "k", DefaultK),
                beam_size |-> Get(configurable, "beam_size", DefaultBeamSize)]
    IN  [key \in DOMAIN configurable \cup DOMAIN own |->
            IF key \in DOMAIN own THEN own[key] ELSE configurable[key]]

(* The engine's step ceiling: config["recursion_limit"], 25 when absent.   *)
recursion_limit(cfg) == Get(cfg, "recursion_limit", DefaultRecursionLimit)

----------------------------------------------------------------------------
(* Channel reducers of ToTState.                                           *)

Clear == [clear |-> TRUE, items |-> <<>>]
Items(s) == [clear |-> FALSE, items |-> s]

(* A channel without a reducer keeps the last value written.               *)
last_value(a, b) == b

(* depth: Annotated[int, operator.add].                                    *)
add(a, b) == a + b

(* A reducer that appends and has no "clear".                              *)
update_candidates_appending(existing, updates) == existing \o updates.items

(* A reducer that replaces the list by the update.                         *)
update_candidates_replacing(existing, updates) ==
    IF updates.clear THEN <<>> ELSE updates.items

(* update_candidates(existing, updates); existing is never None here.      *)
update_candidates(existing, updates) ==
    IF updates.clear THEN <<>> ELSE existing \o updates.items

----------------------------------------------------------------------------
(* The nodes of the graph.                                                 *)

(* One answer of the external proposal source to solver.invoke: it raises  *)
(* (timeout, schema violation), returns None, or returns a GuessEquations. *)
Raises == [kind |-> "raises", equations |-> <<>>]
ReturnsNone == [kind |-> "none", equations |-> <<>>]
Returns(eqs) == [kind |-> "ok", equations |-> eqs]

Wrote(cands) == [st |-> "ok", candidates |-> cands, err |-> ""]
Raised(e) == [st |-> "raised", candidates |-> <<>>, err |-> e]

AsCandidates(eqs) == [i \in 1..Len(eqs) |-> Candidate(eqs[i])]

(* The `candidate` text of the request: the seed and the heuristic         *)
(* candidates it renders (str(state["seed"]), str(candidates)).            *)
Hint(text, seeds, heuristics) == [text |-> text, seed |-> seeds, heuristics |-> heuristics]

candidate_str_heu(task) ==
    IF "seed" \in DOMAIN task
    THEN Hint("promising solution canditates", <<task.seed>>, <<>>)
    ELSE Hint("promising solution canditates", <<>>,
              AsCandidates(heuristic_equations(task.problem)))

candidate_str_cot(task) ==
    IF "seed" \in DOMAIN task THEN Hint("\n\n", <<task.seed>>, <<>>) ELSE Hint("", <<>>, <<>>)

(* The arguments of solver.invoke.                                         *)
request(v, task, cfg) ==
    [problem |-> task.problem,
     candidate |-> IF v = "heu" THEN candidate_str_heu(task) ELSE candidate_str_cot(task),
     k |-> _ensure_configurable(v, cfg).k]

(* expand of the heuristic notebook: task is the state handed to the node  *)
(* (with key "seed" when it was sent by should_terminate); the whole call  *)
(* and the filter are inside the try block.                                *)
expand_heu(task, answer) ==
    LET problem_numbers == task.problem
        initial == IF "seed" \in DOMAIN task
                   THEN <<>>
                   ELSE AsCandidates(heuristic_equations(problem_numbers))
        valid(eq) == is_valid_equation(eq, problem_numbers)
    IN  IF answer.kind = "ok"
        THEN Wrote(AsCandidates(SelectSeq(answer.equations, valid)))
        ELSE Wrote(initial)

(* expand of the CoT notebook: `equation_submission.equations` is read     *)
(* after the try block.                                                    *)
expand_cot(task, answer) ==
    CASE answer.kind = "raises" -> Wrote(<<>>)
      [] answer.kind = "none" ->
            Raised("AttributeError(\"'NoneType' object has no attribute 'equations'\")")
      [] answer.kind = "ok" -> Wrote(AsCandidates(answer.equations))

expand(v, task, answer) ==
    IF v = "heu" THEN expand_heu(task, answer) ELSE expand_cot(task, answer)

(* A task of the expand superstep: not started, or finished with the       *)
(* request it sent, the kind of answer it got, the number of equations in  *)
(* the answer and what it returned.                                        *)
Pending == [st |-> "pending", request |-> <<>>, answer |-> "", proposed |-> 0,
            candidates |-> <<>>, err |-> ""]

Finished(v, task, cfg, answer) ==
    LET r == expand(v, task, answer)
    IN  [st |-> r.st, request |-> request(v, task, cfg), answer |-> answer.kind,
         proposed |-> Len(answer.equations), candidates |-> r.candidates, err |-> r.err]

(* score(state): the update it returns for scored_candidates.              *)
score(state) ==
    [i \in 1..Len(state.candidates) |-> compute_score(state.problem, state.candidates[i])]

(* A descending insertion that puts the new element before its equals.     *)
RECURSIVE InsertBeforeEquals(_, _)
InsertBeforeEquals(x, s) ==
    IF s = <<>> THEN <<x>>
    ELSE IF RGeq(x.score, Head(s).score) THEN <<x>> \o s
         ELSE <<Head(s)>> \o InsertBeforeEquals(x, Tail(s))

(* The list as it is, not sorted.                                          *)
unsorted(s) == s

(* sorted(scored_candidates, key=score, reverse=True): stable, descending. *)
RECURSIVE InsertDesc(_, _)
InsertDesc(x, s) ==
    IF s = <<>> THEN <<x>>
    ELSE IF RLess(Head(s).score, x.score) THEN <<x>> \o s
         ELSE <<Head(s)>> \o InsertDesc(x, Tail(s))

RECURSIVE organized(_)
organized(s) ==
    IF s = <<>> THEN <<>> ELSE InsertDesc(s[Len(s)], organized(SubSeq(s, 1, Len(s) - 1)))

(* prune(state, config): the list it returns for candidates.               *)
prune(v, state, cfg) ==
    LET beam_size == _ensure_configurable(v, cfg).beam_size
        sortedAll == organized(state.scored_candidates)
    IN  SubSeq(sortedAll, 1, IF Len(sortedAll) < beam_size THEN Len(sortedAll) ELSE beam_size)

(* prune's update of depth: "depth": 1.                                    *)
prune_depth == 1

End == [kind |-> "__end__", sends |-> <<>>, err |-> ""]
Sends(tasks) == [kind |-> "Send", sends |-> tasks, err |-> ""]
RouteRaises(e) == [kind |-> "raise", sends |-> <<>>, err |-> e]

SendState(state) ==
    [problem |-> state.problem, candidates |-> state.candidates,
     scored_candidates |-> state.scored_candidates, depth |-> state.depth]

WithKey(task, key, val) ==
    [x \in DOMAIN task \cup {key} |-> IF x = key THEN val ELSE task[x]]

(* A termination check that goes on with the best candidate alone.         *)
should_terminate_best_only(state, cfg) ==
    LET configurable == _ensure_configurable("heu", cfg)
        candidates == state.candidates
    IN  IF candidates = <<>> THEN End
        ELSE IF RGeq(candidates[1].score, configurable.threshold)
                \/ state.depth >= configurable.max_depth
             THEN End
             ELSE Sends(<<WithKey(SendState(state), "seed", candidates[1])>>)

(* should_terminate of the heuristic notebook.                             *)
should_terminate_heu(state, cfg) ==
    LET configurable == _ensure_configurable("heu", cfg)
        candidates == state.candidates
    IN  IF candidates = <<>> THEN End
        ELSE IF RGeq(candidates[1].score, configurable.threshold)
                \/ state.depth >= configurable.max_depth
             THEN End
             ELSE Sends([i \in 1..Len(candidates) |->
                            WithKey(SendState(state), "seed", candidates[i])])

(* should_terminate of the CoT notebook: state["candidates"][0] first.     *)
should_terminate_cot(state, cfg) ==
    LET configurable == _ensure_configurable("cot", cfg)
        candidates == state.candidates
    IN  IF candidates = <<>> THEN RouteRaises("IndexError('list index out of range')")
        ELSE IF RGeq(candidates[1].score, configurable.threshold)
                \/ state.depth >= configurable.max_depth
             THEN End
             ELSE Sends([i \in 1..Len(candidates) |->
                            WithKey(SendState(state), "somevalseed", candidates[i])])

should_terminate(v, state, cfg) ==
    IF v = "heu" THEN should_terminate_heu(state, cfg) ELSE should_terminate_cot(state, cfg)

(* run_tot_on_problem after the stream: max(candidates, key=score) is the  *)
(* first member with the greatest score.                                   *)
(* A maximum that takes the last of the members with the greatest score.   *)
RECURSIVE max_by_score_last(_)
max_by_score_last(cands) ==
    IF Len(cands) = 1 THEN cands[1]
    ELSE LET m == max_by_score_last(SubSeq(cands, 1, Len(cands) - 1))
         IN  IF RGeq(cands[Len(cands)].score, m.score) THEN cands[Len(cands)] ELSE m

RECURSIVE max_by_score(_)
max_by_score(cands) ==
    IF Len(cands) = 1 THEN cands[1]
    ELSE LET m == max_by_score(SubSeq(cands, 1, Len(cands) - 1))
         IN  IF RLess(m.score, cands[Len(cands)].score) THEN cands[Len(cands)] ELSE m

NoResult == [kind |-> "none"]

run_result(final_state, cfg) ==
    LET best == max_by_score(final_state.candidates)
    IN  [kind |-> "result",
         solved |-> RGeq(best.score, Get(cfg.configurable, "threshold", DefaultThreshold)),
         depth |-> final_state.depth,
         best_score |-> best.score,
         equation |-> best.candidate,
         feedback |-> best.feedback]

----------------------------------------------------------------------------
(* Inputs of the model.                                                    *)

MaxProposals == 2

(* What the proposal source may submit for each problem: for 1 2 12 13 a   *)
(* solution (24), a near miss (24 + 1/13), a far miss (28) and an          *)
(* expression over two of the numbers only; for 1 1 1 2 two different      *)
(* expressions of value 6 and a division by zero.                          *)
E_sol == <<Lit(1), Lit(2), Op("-"), Lit(12), Op("+"), Lit(13), Op("+")>>
E_near == <<Lit(2), Lit(12), Op("*"), Lit(1), Lit(13), Op("/"), Op("+")>>
E_far == <<Lit(1), Lit(2), Op("+"), Lit(12), Op("+"), Lit(13), Op("+")>>
E_short == <<Lit(2), Lit(12), Op("*")>>
E_six == <<Lit(1), Lit(1), Op("+"), Lit(1), Op("+"), Lit(2), Op("*")>>
E_tie == <<Lit(2), Lit(1), Lit(1), Op("+"), Lit(1), Op("+"), Op("*")>>
E_zero == <<Lit(2), Lit(1), Lit(1), Op("-"), Op("/"), Lit(1), Op("+")>>

Pool(p) == IF p = <<1, 2, 12, 13>> THEN {E_sol, E_near, E_far, E_short}
           ELSE {E_six, E_tie, E_zero}

SeqsUpTo(S, n) == UNION {[1..m -> S] : m \in 0..n}

Answers(p) == {Raises, ReturnsNone} \cup {Returns(eqs) : eqs \in SeqsUpTo(Pool(p), MaxProposals)}

MaxDepths == {0, 1, 2}
BeamSizes == {1, 2}

(* run_tot_on_many_problems' config, with beam_size 1.                     *)
BatchConfig(v) ==
    IF v = "heu"
    THEN [configurable |-> [thread_id |-> "eval_batch", depth |-> 10,
                            threshold |-> BatchThreshold, k |-> 5, beam_size |-> 1]]
    ELSE [recursion_limit |-> BatchRecursionLimitCoT,
          configurable |-> [thread_id |-> "eval_batch", depth |-> 20,
                            threshold |-> BatchThreshold, k |-> 5, beam_size |-> 1]]

SmallConfig(d, b) == [configurable |-> [thread_id |-> "test_1", max_depth |-> d, beam_size |-> b]]

TightConfig == [recursion_limit |-> 4,
                configurable |-> [thread_id |-> "test_1", max_depth |-> 2, beam_size |-> 1,
                                  k |-> 2]]

Configs(v) == {BatchConfig(v), TightConfig} \cup {SmallConfig(d, b) : d \in MaxDepths, b \in BeamSizes}

----------------------------------------------------------------------------
(* The run of one problem: graph.stream(...) then the result.  puzzles and *)
(* results belong to the batch loop around the runs (below): the puzzles   *)
(* still to run and the records collected so far.                          *)

VARIABLES variant, problem, config, pc, tasks, branches, arrival,
          candidates, scored_candidates, depth, steps, err, result,
          puzzles, results

vars == <<variant, problem, config, pc, tasks, branches, arrival,
          candidates, scored_candidates, depth, steps, err, result,
          puzzles, results>>

State == [problem |-> problem, candidates |-> candidates,
          scored_candidates |-> scored_candidates, depth |-> depth]

Init ==
    /\ variant \in {"heu", "cot"}
    /\ problem \in Problems
    /\ config \in Configs(variant)
    /\ pc = "expand"
    /\ tasks = <<[problem |-> problem]>>
    /\ branches = <<Pending>>
    /\ arrival = <<>>
    /\ candidates = <<>>
    /\ scored_candidates = <<>>
    /\ depth = 0
    /\ steps = 0
    /\ err = ""
    /\ result = NoResult
    /\ puzzles = <<>>
    /\ results = <<>>

RECURSIVE apply_writes(_, _)
apply_writes(existing, ws) ==
    IF ws = <<>> THEN existing
    ELSE apply_writes(update_candidates(existing, Items(Head(ws).candidates)), Tail(ws))

(* A superstep that ends with the first task that returns.                 *)
first_done(bs) == \E j \in 1..Len(bs) : bs[j].st = "ok"

(* The writes taken in the order in which the tasks finished.              *)
arrival_order(bs, arr) == [n \in 1..Len(arr) |-> bs[arr[n]]]

(* The superstep of the expand tasks is over when every task has returned. *)
superstep_done(bs) == \A j \in 1..Len(bs) : bs[j].st = "ok"

(* The writes of a superstep are applied in the order of its tasks (the    *)
(* order of the Sends), whatever the order arr in which they finished.     *)
ordered_writes(bs, arr) == bs

(* One expand task of the current superstep finishes; the superstep ends   *)
(* when every task has, and its writes are applied in task order.  An      *)
(* exception of a task ends the run.                                       *)
ExpandBranch(i, answer) ==
    /\ pc = "expand"
    /\ steps < recursion_limit(config)
    /\ branches[i].st = "pending"
    /\ LET b == Finished(variant, tasks[i], config, answer)
           bs == [branches EXCEPT ![i] = b]
           arr == Append(arrival, i)
       IN  /\ branches' = bs
           /\ arrival' = arr
           /\ IF b.st = "raised"
              THEN /\ pc' = "raised"
                   /\ err' = b.err
                   /\ UNCHANGED <<candidates, steps>>
              ELSE IF superstep_done(bs)
                   THEN /\ candidates' = apply_writes(candidates, ordered_writes(bs, arr))
                        /\ pc' = "score"
                        /\ steps' = steps + 1
                        /\ err' = err
                   ELSE UNCHANGED <<pc, candidates, steps, err>>
    /\ UNCHANGED <<puzzles, results, variant, problem, config, tasks, scored_candidates, depth, result>>

Score ==
    /\ pc = "score"
    /\ steps < recursion_limit(config)
    /\ scored_candidates' = update_candidates(scored_candidates, Items(score(State)))
    /\ candidates' = update_candidates(candidates, Clear)
    /\ steps' = steps + 1
    /\ pc' = "prune"
    /\ UNCHANGED <<puzzles, results, variant, problem, config, tasks, branches, arrival, depth, err, result>>

(* prune and the conditional edge should_terminate, which reads the state  *)
(* with prune's update applied.                                            *)
Prune ==
    /\ pc = "prune"
    /\ steps < recursion_limit(config)
    /\ LET after == [problem |-> problem,
                     candidates |-> update_candidates(candidates, Items(prune(variant, State, config))),
                     scored_candidates |-> update_candidates(scored_candidates, Clear),
                     depth |-> add(depth, prune_depth)]
           route == should_terminate(variant, after, config)
       IN  IF route.kind = "raise"
           THEN /\ pc' = "raised"
                /\ err' = route.err
                /\ UNCHANGED <<tasks, branches, arrival, candidates, scored_candidates,
                               depth, steps>>
           ELSE /\ candidates' = after.candidates
                /\ scored_candidates' = after.scored_candidates
                /\ depth' = after.depth
                /\ steps' = steps + 1
                /\ err' = err
                /\ IF route.kind = "__end__"
                   THEN pc' = "end" /\ UNCHANGED <<tasks, branches, arrival>>
                   ELSE /\ pc' = "expand"
                        /\ tasks' = route.sends
                        /\ branches' = [j \in 1..Len(route.sends) |-> Pending]
                        /\ arrival' = <<>>
    /\ UNCHANGED <<puzzles, results, variant, problem, config, result>>

(* The engine refuses to start a superstep beyond the recursion limit.     *)
CeilingError ==
    /\ pc \in {"expand", "score", "prune"}
    /\ steps >= recursion_limit(config)
    /\ pc' = "raised"
    /\ err' = "GraphRecursionError"
    /\ UNCHANGED <<puzzles, results, variant, problem, config, tasks, branches, arrival, candidates,
                   scored_candidates, depth, steps, result>>

(* run_tot_on_problem after the stream ended normally.                     *)
ReturnResult ==
    /\ pc = "end"
    /\ IF candidates = <<>>
       THEN /\ pc' = "result_raised"
            /\ err' = "ValueError('max() iterable argument is empty')"
            /\ result' = result
       ELSE /\ pc' = "returned"
            /\ result' = run_result(State, config)
            /\ err' = err
    /\ UNCHANGED <<puzzles, results, variant, problem, config, tasks, branches, arrival, candidates,
                   scored_candidates, depth, steps>>

Next ==
    \/ \E i \in 1..Len(tasks) : \E answer \in Answers(problem) : ExpandBranch(i, answer)
    \/ Score
    \/ Prune
    \/ CeilingError
    \/ ReturnResult

Spec == Init /\ [][Next]_vars

----------------------------------------------------------------------------
(* run_tot_on_many_problems: the loop over puzzles[:limit] with the batch   *)
(* configuration; each iteration is one run_tot_on_problem, which compiles *)
(* the graph with a checkpointer, streams the run and builds the result;   *)
(* the loop appends the result, or an error record when the run raised.    *)

(* The checkpoint a checkpointer holds for the thread_id of the batch: the *)
(* channel values the last superstep of a run left (none in a new saver).  *)
NoCheckpoint == [saved |-> FALSE, candidates |-> <<>>, scored_candidates |-> <<>>, depth |-> 0]
Checkpoint(state) ==
    [saved |-> TRUE, candidates |-> state.candidates,
     scored_candidates |-> state.scored_candidates, depth |-> state.depth]

(* A checkpointer kept from one run to the next.                           *)
kept_checkpointer(held) == held

(* graph_build.compile(checkpointer=MemorySaver()): the checkpointer of    *)
(* the graph of this run, where `held` is what the checkpointer of the     *)
(* previous run's graph holds: a new MemorySaver holds nothing.            *)
MemorySaver(held) == NoCheckpoint

(* graph.stream(state_input, config): the channels start from the          *)
(* checkpoint the checkpointer has for config's thread_id (empty list,     *)
(* depth 0 without one) and the input is written to them.                  *)
stream_start(saver, state_input) ==
    [problem |-> state_input.problem, candidates |-> saver.candidates,
     scored_candidates |-> saver.scored_candidates, depth |-> saver.depth]

(* The record the loop appends for a run that raised e (feedback str(e)).  *)
error_record(v, e) ==
    [kind |-> "error", solved |-> FALSE, depth |-> IF v = "heu" THEN -1 ELSE 0,
     best_score |-> <<0, 1>>, equation |-> "ERROR", feedback |-> e]

(* A loop body without the except clause: nothing is appended for a run   *)
(* that raised.                                                            *)
try_without_except(v, raised, res, e) == IF raised THEN <<>> ELSE <<res>>

(* The try statement of the loop body: what is appended to results for a   *)
(* run that returned res, or that raised e.                                *)
try_record(v, raised, res, e) == IF raised THEN <<error_record(v, e)>> ELSE <<res>>

(* puzzles[:limit]: one or two of the problems.                            *)
PuzzleLists == {<<p>> : p \in Problems} \cup {<<p, q>> : p, q \in Problems}

NoProblem == <<>>

(* The answers of the proposal source in a batch: a failure, or one        *)
(* proposal.                                                               *)
BatchAnswers(p) == {Raises, ReturnsNone} \cup {Returns(<<e>>) : e \in Pool(p)}

BatchInit ==
    /\ variant \in {"heu", "cot"}
    /\ config = BatchConfig(variant)
    /\ puzzles \in PuzzleLists
    /\ results = <<>>
    /\ pc = "loop"
    /\ problem = NoProblem
    /\ tasks = <<>>
    /\ branches = <<>>
    /\ arrival = <<>>
    /\ candidates = <<>>
    /\ scored_candidates = <<>>
    /\ depth = 0
    /\ steps = 0
    /\ err = ""
    /\ result = NoResult

(* The next iteration: run_tot_on_problem(puzzle, graph_build, config) up  *)
(* to the start of the stream.                                             *)
NextPuzzle ==
    /\ pc = "loop"
    /\ puzzles # <<>>
    /\ LET held == IF results = <<>> THEN NoCheckpoint ELSE Checkpoint(State)
           state_input == [problem |-> Head(puzzles)]
           start == stream_start(MemorySaver(held), state_input)
       IN  /\ problem' = start.problem
           /\ candidates' = start.candidates
           /\ scored_candidates' = start.scored_candidates
           /\ depth' = start.depth
           /\ tasks' = <<state_input>>
    /\ puzzles' = Tail(puzzles)
    /\ branches' = <<Pending>>
    /\ arrival' = <<>>
    /\ steps' = 0
    /\ err' = ""
    /\ result' = NoResult
    /\ pc' = "expand"
    /\ UNCHANGED <<variant, config, results>>

(* results.append(result), or the except clause when the run raised.       *)
AppendResult ==
    /\ pc \in {"returned", "raised", "result_raised"}
    /\ results' = results \o try_record(variant, pc # "returned", result, err)
    /\ pc' = "loop"
    /\ UNCHANGED <<variant, problem, config, tasks, branches, arrival, candidates,
                   scored_candidates, depth, steps, err, result, puzzles>>

(* return results                                                          *)
ReturnResults ==
    /\ pc = "loop"
    /\ puzzles = <<>>
    /\ pc' = "done"
    /\ UNCHANGED <<variant, problem, config, tasks, branches, arrival, candidates,
                   scored_candidates, depth, steps, err, result, puzzles, results>>

(* Python's sum() over a list of numbers, and round(x, digits) on the      *)
(* exact value (halves go to the even neighbour).                          *)
RECURSIVE sum(_)
sum(s) == IF s = <<>> THEN <<0, 1>> ELSE RAdd(Head(s), sum(Tail(s)))

Pow10(digits) == IF digits = 2 THEN 100 ELSE 1000

round(x, digits) ==
    LET scaled == RMul(x, RInt(Pow10(digits)))
        floor == scaled[1] \div scaled[2]
        twice == 2 * (scaled[1] - floor * scaled[2])
        nearest == IF twice > scaled[2] \/ (twice = scaled[2] /\ floor % 2 = 1)
                   THEN floor + 1 ELSE floor
    IN  Rat(nearest, Pow10(digits))

max(a, b) == IF a < b THEN b ELSE a

RECURSIVE max_of(_)
max_of(s) ==
    IF Len(s) = 1 THEN s[1]
    ELSE LET m == max_of(Tail(s)) IN IF RLess(Head(s), m) THEN m ELSE Head(s)

(* evaluate_tot_llm_performance(results), the definition in force when the *)
(* metrics are computed (the last cell); results is not empty here.        *)
evaluate_tot_llm_performance(rs) ==
    LET num_trials == Len(rs)
        solved == SelectSeq(rs, LAMBDA r : r.solved)
        num_solved == Len(solved)
        nonneg == SelectSeq(rs, LAMBDA r : r.depth >= 0)
        avg_depth == RDiv(sum([i \in 1..Len(nonneg) |-> RInt(nonneg[i].depth)]),
                          RInt(max(1, num_trials)))
        avg_score == RDiv(sum([i \in 1..Len(rs) |-> rs[i].best_score]),
                          RInt(max(1, num_trials)))
        max_score == max_of([i \in 1..Len(rs) |-> rs[i].best_score])
    IN  [kind |-> "metrics",
         total_problems |-> num_trials,
         solved_problems |-> num_solved,
         accuracy |-> round(Rat(num_solved, num_trials), 3),
         average_depth |-> round(avg_depth, 2),
         average_best_score |-> round(avg_score, 3),
         highest_score |-> round(max_score, 3),
         example_solutions |-> [i \in 1..Len(solved) |-> solved[i].equation]]

(* metrics = evaluate_tot_llm_performance(results=results)                 *)
Evaluate ==
    /\ pc = "done"
    /\ result' = evaluate_tot_llm_performance(results)
    /\ pc' = "evaluated"
    /\ UNCHANGED <<variant, problem, config, tasks, branches, arrival, candidates,
                   scored_candidates, depth, steps, err, puzzles, results>>

BatchNext ==
    \/ NextPuzzle
    \/ \E i \in 1..Len(tasks) : \E answer \in BatchAnswers(problem) : ExpandBranch(i, answer)
    \/ Score
    \/ Prune
    \/ CeilingError
    \/ ReturnResult
    \/ AppendResult
    \/ ReturnResults
    \/ Evaluate

BatchSpec == BatchInit /\ [][BatchNext]_vars

----------------------------------------------------------------------------
(* Equation.compute and compute_score on their own: a candidate with any   *)
(* token list of at most MaxTokens tokens over a few numbers and           *)
(* operators, or one of a few full-length expressions, is evaluated, or    *)
(* scored for a problem by the score node in a batch of two (a fixed       *)
(* candidate follows it).                                                  *)

MaxTokens == 5

ScoreProblems == {<<1, 1, 4, 6>>, <<1, 1, 1, 1>>}

ScoreTokens == {Lit(1), Lit(4), Lit(6), Op("*"), Op("-"), Op("/")}

(* 4 6 * 1 * 1 * = 24; 1 1 + 4 + 6 + = 12; 4 6 1 1 - / * divides by zero;  *)
(* 1 1 1 1 + + + = 4; 4 6 * 1 + 1 + = 26.                                  *)
F_solution == <<Lit(4), Lit(6), Op("*"), Lit(1), Op("*"), Lit(1), Op("*")>>
F_twelve == <<Lit(1), Lit(1), Op("+"), Lit(4), Op("+"), Lit(6), Op("+")>>
F_zero == <<Lit(4), Lit(6), Lit(1), Lit(1), Op("-"), Op("/"), Op("*")>>
F_ones == <<Lit(1), Lit(1), Lit(1), Lit(1), Op("+"), Op("+"), Op("+")>>
F_over == <<Lit(4), Lit(6), Op("*"), Lit(1), Op("+"), Lit(1), Op("+")>>

FullExpressions == {F_solution, F_twelve, F_zero, F_ones, F_over}

ScoreExpressions == SeqsUpTo(ScoreTokens, MaxTokens) \cup FullExpressions

(* The candidate that follows the candidate under test in the batch.       *)
Follower == Candidate(F_twelve)

ScoreInit ==
    /\ variant \in {"heu", "cot"}
    /\ problem \in ScoreProblems
    /\ config = SmallConfig(0, 1)
    /\ pc = "candidate"
    /\ tasks = <<>>
    /\ branches = <<>>
    /\ arrival = <<>>
    /\ candidates \in {<<Candidate(tokens), Follower>> : tokens \in ScoreExpressions}
    /\ scored_candidates = <<>>
    /\ depth = 0
    /\ steps = 0
    /\ err = ""
    /\ result = NoResult
    /\ puzzles = <<>>
    /\ results = <<>>

(* score(state) on the batch: compute_score(problem, candidate) for each.  *)
ScoreCandidate ==
    /\ pc = "candidate"
    /\ scored_candidates' = score(State)
    /\ pc' = "scored"
    /\ UNCHANGED <<puzzles, results, variant, problem, config, tasks, branches, arrival, candidates,
                   depth, steps, err, result>>

(* candidate.compute() for the candidate under test.                       *)
ComputeCandidate ==
    /\ pc = "candidate"
    /\ LET r == compute(candidates[1].candidate)
       IN  result' = [kind |-> "computed", ok |-> r.ok, val |-> r.val, err |-> r.err]
    /\ pc' = "computed"
    /\ UNCHANGED <<puzzles, results, variant, problem, config, tasks, branches, arrival, candidates,
                   scored_candidates, depth, steps, err>>

ScoreNext == ScoreCandidate \/ ComputeCandidate

ScoreSpec == ScoreInit /\ [][ScoreNext]_vars

----------------------------------------------------------------------------
(* expand of the heuristic notebook on its own, for problems of four       *)
(* numbers in non-decreasing order over a few values: one task, without a  *)
(* seed or with one, and an answer of the proposal source that fails, is   *)
(* empty or has one equation.                                              *)

HeuristicNumbers == {1, 2, 3, 4, 6, 8}

HeuristicProblems ==
    {<<a, b, c, d>> : a, b, c, d \in HeuristicNumbers} \ 
        {q \in [1..4 -> HeuristicNumbers] : q[1] > q[2] \/ q[2] > q[3] \/ q[3] > q[4]}

(* a b + c + d +                                                           *)
SumOf(p) == LeftDeep(p, <<"+", "+", "+">>)

HeuristicTasks(p) ==
    LET seed == compute_score(p, Candidate(SumOf(p)))
        state == [problem |-> p, candidates |-> <<seed>>, scored_candidates |-> <<>>,
                  depth |-> 1]
    IN  {[problem |-> p], WithKey(SendState(state), "seed", seed)}

HeuristicAnswers(p) == {Raises, ReturnsNone, Returns(<<>>), Returns(<<SumOf(p)>>)}

HeuristicInit ==
    /\ variant = "heu"
    /\ problem \in HeuristicProblems
    /\ config = SmallConfig(1, 1)
    /\ pc = "task"
    /\ tasks \in {<<task>> : task \in HeuristicTasks(problem)}
    /\ branches = <<Pending>>
    /\ arrival = <<>>
    /\ candidates = <<>>
    /\ scored_candidates = <<>>
    /\ depth = 0
    /\ steps = 0
    /\ err = ""
    /\ result = NoResult
    /\ puzzles = <<>>
    /\ results = <<>>

(* expand(state, config) for the task.                                     *)
ExpandTask(answer) ==
    /\ pc = "task"
    /\ branches' = <<Finished(variant, tasks[1], config, answer)>>
    /\ pc' = "expanded"
    /\ UNCHANGED <<puzzles, results, variant, problem, config, tasks, arrival, candidates,
                   scored_candidates, depth, steps, err, result>>

HeuristicNext == \E answer \in HeuristicAnswers(problem) : ExpandTask(answer)

HeuristicSpec == HeuristicInit /\ [][HeuristicNext]_vars

----------------------------------------------------------------------------
(* Vocabulary of the properties.                                           *)

Configurable == _ensure_configurable(variant, config)

(* The threshold of the run configuration (its "configurable" section).    *)
RunThreshold == Get(Get(config, "configurable", <<>>), "threshold", DefaultThreshold)

(* A step of the prune superstep (prune followed by should_terminate).     *)
PruneStep == pc = "prune" /\ steps < recursion_limit(config) /\ pc' # "prune"

(* A step of an expand task.                                               *)
ExpandStep == pc = "expand" /\ steps < recursion_limit(config) /\ branches' # branches

FailedAnswers == {"raises", "none"}

AllCallsFailed == \A i \in 1..Len(branches) : branches[i].answer \in FailedAnswers

(* The three terminating conditions of the termination check, on the       *)
(* state left by PRUNE (candidates is then the frontier).                  *)
TerminalCondition ==
    \/ candidates = <<>>
    \/ RGeq(candidates[1].score, Configurable.threshold)
    \/ depth >= Configurable.max_depth

Stopped == pc \in {"returned", "raised", "result_raised"}

(* A round is the three supersteps expand, score, prune.                   *)
StepsPerRound == 3

CompletedRounds == steps \div StepsPerRound

(* A prune superstep that completed: its updates were applied.             *)
PruneDone == PruneStep /\ pc' \in {"end", "expand"}

Min(a, b) == IF a < b THEN a ELSE b

Range(s) == {s[i] : i \in DOMAIN s}

CountIn(s, x) == Cardinality({i \in DOMAIN s : s[i] = x})

BeamSize == Configurable.beam_size

(* The scored candidates by score classes, the best class first, each      *)
(* class in the order of the list.                                         *)
RECURSIVE ByScoreClasses(_, _)
ByScoreClasses(s, scores) ==
    IF scores = {} THEN <<>>
    ELSE LET top == CHOOSE a \in scores : \A b \in scores : RGeq(a, b)
             inTop(c) == c.score = top
         IN  SelectSeq(s, inTop) \o ByScoreClasses(s, scores \ {top})

StableDescending(s) == ByScoreClasses(s, {s[i].score : i \in DOMAIN s})

(* The candidates returned by the expand tasks, in task order.             *)
RECURSIVE Concat(_)
Concat(bs) == IF bs = <<>> THEN <<>> ELSE Head(bs).candidates \o Concat(Tail(bs))

ReturnedThisRound == Concat(branches)

(* A task created by a Send of should_terminate carries the state; the     *)
(* task of round 0 is the input of the run.                                *)
IsSent(task) == "candidates" \in DOMAIN task

(* The frontier member a sent task was created for.                        *)
SentFor(task) == IF "seed" \in DOMAIN task THEN task.seed ELSE task.somevalseed

(* The frontier the current round started from (the state of the Sends).   *)
RoundFrontier == IF IsSent(tasks[1]) THEN tasks[1].candidates ELSE <<>>

(* What the candidates channel holds once every task of the round has      *)
(* written: the channel as PRUNE left it, then the writes in task order.   *)
PooledBatch == RoundFrontier \o ReturnedThisRound

NoTaskPending == \A i \in 1..Len(branches) : branches[i].st = "ok"

(* The candidate of ScoreSpec and what compute_score made of it.           *)
Scored == pc = "scored"
Computed == pc = "computed"
TheTokens == candidates[1].candidate
TheScored == scored_candidates[1]

(* The literals of the expression are the problem's numbers, each as often *)
(* as the problem has it.                                                  *)
OperandsMatch(tokens, numbers) ==
    LET used == used_numbers(tokens)
    IN  \A n \in Range(used) \cup Range(numbers) : CountIn(used, n) = CountIn(numbers, n)

(* A well-formed RPN expression: every operator finds two operands (d is   *)
(* the number of values on the stack) and one value is left at the end.    *)
RECURSIVE WellFormedFrom(_, _, _)
WellFormedFrom(tokens, i, d) ==
    IF i > Len(tokens) THEN d = 1
    ELSE IF IsFloat(tokens[i]) THEN WellFormedFrom(tokens, i + 1, d + 1)
         ELSE d >= 2 /\ WellFormedFrom(tokens, i + 1, d - 1)

WellFormed(tokens) == WellFormedFrom(tokens, 1, 0)

One == <<1, 1>>
Zero == <<0, 1>>

(* Every run stops, in a result or in an exception: a run that has not     *)
(* stopped can take a step (CanStep is the disjunction of the guards of    *)
(* the actions), and every step lowers Rank, the engine steps left before  *)
(* the ceiling counted with the expand tasks still pending.                *)
PendingTasks ==
    IF pc = "expand"
    THEN Cardinality({i \in 1..Len(branches) : branches[i].st = "pending"})
    ELSE 0

Rank ==
    IF Stopped THEN 0
    ELSE IF pc = "end" THEN 1
    ELSE 2 + (recursion_limit(config) - steps) * (DefaultBeamSize + 1) + PendingTasks

CanStep ==
    \/ pc = "end"
    \/ pc \in {"expand", "score", "prune"} /\ steps >= recursion_limit(config)
    \/ pc \in {"score", "prune"} /\ steps < recursion_limit(config)
    \/ pc = "expand" /\ steps < recursion_limit(config) /\ PendingTasks > 0

NeverStuck == ~Stopped => CanStep

RankDecreases == [][Rank' < Rank]_vars

RankIsNatural == Rank >= 0 /\ steps <= recursion_limit(config)

----------------------------------------------------------------------------
(* C1: after every PRUNE the controller terminates exactly when the        *)
(* frontier is empty, or frontier[0].score >= threshold, or depth >=       *)
(* max_depth, and otherwise starts another EXPAND; nothing else ends the   *)
(* run at this point.                                                      *)
C1_TerminationDecision ==
    [][PruneStep => /\ pc' \in {"end", "expand"}
                    /\ (pc' = "end") <=> TerminalCondition']_vars

(* C2: when the frontier is empty after PRUNE, the termination check ends   *)
(* the run as a normal TERMINATE and raises nothing.                       *)
C2_EmptyFrontierIsNormalEnd ==
    [][(PruneStep /\ prune(variant, State, config) = <<>>) => (pc' = "end" /\ err' = "")]_vars

(* C3: a run that terminated with an empty frontier gets a run result      *)
(* with solved = FALSE and the depth of the run; building it does not      *)
(* fail on the maximum of an empty list.                                   *)
C3_EmptyFrontierResult ==
    [][(pc = "end" /\ candidates = <<>>)
          => (pc' = "returned" /\ result'.solved = FALSE /\ result'.depth = depth)]_vars

(* C4: no failure of the proposal source leaves expand: every step of an   *)
(* expand task leaves the run in EXPAND or takes it to SCORE.              *)
C4_ExpandNeverRaises ==
    [][ExpandStep => (pc' \in {"expand", "score"} /\ err' = "")]_vars

(* C5: an expand whose proposal call failed contributes no candidate, in    *)
(* round 0 as in later rounds.                                             *)
C5_FailedCallContributesNothing ==
    \A i \in 1..Len(branches) :
        branches[i].answer \in FailedAnswers => branches[i].candidates = <<>>

(* C6: after a round in which every proposal call failed, the frontier     *)
(* left by PRUNE is empty and the termination check ends the run.          *)
C6_AllFailedRoundEndsRun ==
    [][(PruneStep /\ AllCallsFailed) => (candidates' = <<>> /\ pc' = "end")]_vars

(* C7: the termination check compares frontier[0].score with the threshold *)
(* of the run configuration, 0.9 only when it gives none: with a non-empty *)
(* frontier and depth < max_depth, the run ends exactly when the best      *)
(* score reaches that threshold.                                           *)
C7_ThresholdOfRunConfiguration ==
    [][(PruneStep /\ pc' \in {"end", "expand"} /\ candidates' # <<>>
          /\ depth' < Configurable.max_depth)
          => ((pc' = "end") <=> RGeq(candidates'[1].score, RunThreshold))]_vars

(* C8: with max_depth = 0 the first termination check ends the run          *)
(* normally, at depth 1, whatever the round scored.                        *)
C8_MaxDepthZeroOneCycle ==
    [][(PruneStep /\ Configurable.max_depth = 0) => (pc' = "end" /\ depth' = 1)]_vars

(* C9: a run of the graph ends either in normal TERMINATE or in the         *)
(* ceiling error, raised once the engine has run recursion_limit steps.    *)
C9_EndsInTerminateOrCeiling ==
    pc = "raised" => (err = "GraphRecursionError" /\ steps >= recursion_limit(config))

(* C10: under the default settings of the batch runs, a run whose frontier *)
(* stays non-empty and below threshold ends by budget with depth =         *)
(* max_depth, and never in the ceiling error.                              *)
C10_BudgetBeforeCeiling ==
    config = BatchConfig(variant) =>
        /\ ~(pc = "raised" /\ err = "GraphRecursionError")
        /\ (pc = "end" /\ candidates # <<>>
               /\ RLess(candidates[1].score, Configurable.threshold))
              => depth = Configurable.max_depth

----------------------------------------------------------------------------
(* C11: depth starts at 0, grows by exactly 1 at each completed PRUNE and  *)
(* is left alone by every other step (expand branches, SCORE, the result), *)
(* so that it always equals the number of completed rounds and never       *)
(* decreases.                                                              *)
C11_DepthCountsRounds ==
    /\ [](depth = CompletedRounds)
    /\ [][IF PruneDone THEN depth' = depth + 1 ELSE depth' = depth]_vars

(* A run that ended after two rounds, the second with two expand branches. *)
C11_Witness ==
    pc = "end" /\ depth = 2 /\ Len(branches) = 2 /\ arrival = <<2, 1>>

----------------------------------------------------------------------------
(* C12: after every PRUNE the frontier has min(beam_size, n) members taken *)
(* from the n scored candidates of the round, it is ordered best first,    *)
(* and no discarded candidate has a score strictly greater than a kept     *)
(* one.                                                                    *)
C12_FrontierIsTopBeam ==
    [][PruneDone =>
         LET kept == candidates'
             pool == scored_candidates
         IN  /\ Len(kept) = Min(BeamSize, Len(pool))
             /\ \A i \in 1..(Len(kept) - 1) : RGeq(kept[i].score, kept[i + 1].score)
             /\ \A x \in Range(kept) : CountIn(kept, x) <= CountIn(pool, x)
             /\ \A x \in Range(pool) :
                    CountIn(kept, x) < CountIn(pool, x)
                       => \A k \in 1..Len(kept) : RGeq(kept[k].score, x.score)]_vars

(* A first round that proposed two candidates, the better one last, with   *)
(* beam_size 1: the frontier is the second proposal alone.                 *)
C12_Witness ==
    /\ pc = "end" /\ depth = 1 /\ BeamSize = 1
    /\ Len(branches[1].candidates) = 2
    /\ Len(candidates) = 1
    /\ candidates[1].candidate = branches[1].candidates[2].candidate
    /\ candidates[1].candidate # branches[1].candidates[1].candidate

(* C13: PRUNE is a stable top-k: the frontier is the head of the scored    *)
(* list arranged by descending score with equal scores kept in their       *)
(* encounter order.                                                        *)
C13_StableTopK ==
    [][PruneDone =>
         candidates' = SubSeq(StableDescending(scored_candidates), 1,
                              Min(BeamSize, Len(scored_candidates)))]_vars

(* Two different candidates of equal score were proposed and beam_size 1   *)
(* kept the one met first.                                                 *)
C13_Witness ==
    /\ pc = "end" /\ depth = 1 /\ BeamSize = 1
    /\ branches[1].candidates = AsCandidates(<<E_tie, E_six>>)
    /\ Len(candidates) = 1
    /\ candidates[1].candidate = E_tie
    /\ candidates[1].score = compute_score(problem, Candidate(E_six)).score

----------------------------------------------------------------------------
(* C14: the batch handed to SCORE is exactly the concatenation of the      *)
(* candidates returned by the expand tasks of the round; the frontier the  *)
(* round started from is not part of it.                                   *)
C14_BatchIsNewCandidatesOnly ==
    pc = "score" => candidates = ReturnedThisRound

----------------------------------------------------------------------------
(* C15: in every round after round 0 each expand task has the frontier     *)
(* member it was spawned for as its seed and its request carries the hint  *)
(* of that seed; the request of round 0 carries no seed.                   *)
C15_SeedReachesRequest ==
    \A i \in 1..Len(branches) :
        branches[i].st # "pending" =>
            branches[i].request.candidate.seed =
                IF IsSent(tasks[i]) THEN <<RoundFrontier[i]>> ELSE <<>>

----------------------------------------------------------------------------
(* C16: round 0 runs one expand task, every later round one task per       *)
(* member of the frontier left by the previous PRUNE, in frontier order,   *)
(* hence at most beam_size; each task sends one request, for k proposals.  *)
C16_OneCallPerFrontierMember ==
    /\ Len(branches) = Len(tasks)
    /\ pc \in {"expand", "score", "prune"} => (IsSent(tasks[1]) <=> depth >= 1)
    /\ IF IsSent(tasks[1])
       THEN /\ Len(tasks) = Len(RoundFrontier)
            /\ Len(tasks) <= BeamSize
            /\ \A i \in 1..Len(tasks) : SentFor(tasks[i]) = RoundFrontier[i]
       ELSE Len(tasks) = 1
    /\ \A i \in 1..Len(branches) :
          branches[i].st # "pending" =>
              /\ branches[i].request.k = Configurable.k
              /\ branches[i].request.problem = problem

(* The second round of a run with a frontier of two: both expand tasks     *)
(* have sent their request.                                                *)
C16_Witness ==
    /\ pc = "score" /\ depth = 1
    /\ Len(tasks) = 2 /\ BeamSize = 2
    /\ SentFor(tasks[1]) # SentFor(tasks[2])
    /\ \A i \in 1..2 : branches[i].st = "ok" /\ branches[i].request.k = DefaultK

----------------------------------------------------------------------------
(* C17: SCORE runs once per round and only after every expand task of the  *)
(* round has returned, PRUNE only after SCORE: nothing is scored while a   *)
(* task is pending, and every candidate a task returned is in the scored   *)
(* batch.                                                                  *)
C17_BarrierBeforeScore ==
    /\ pc = "expand" => scored_candidates = <<>>
    /\ pc = "score" =>
          /\ NoTaskPending
          /\ scored_candidates = <<>>
          /\ \A c \in Range(ReturnedThisRound) : c \in Range(candidates)
    /\ pc = "prune" =>
          /\ NoTaskPending
          /\ candidates = <<>>
          /\ Len(scored_candidates) = Len(PooledBatch)
          /\ \A c \in Range(ReturnedThisRound) :
                 \E j \in 1..Len(scored_candidates) :
                     scored_candidates[j].candidate = c.candidate

(* A round of two expand tasks that both returned candidates, scored.      *)
C17_Witness ==
    /\ pc = "prune" /\ Len(branches) = 2
    /\ branches[1].candidates # <<>> /\ branches[2].candidates # <<>>
    /\ Len(scored_candidates) >= 3

(* C18: the pooled candidates handed to SCORE are in the order of the      *)
(* tasks (the seed index), whatever the order in which the tasks finished, *)
(* and so are the scored list and the frontier PRUNE takes from it.        *)
C18_PoolOrderIsTaskOrder ==
    /\ [](pc = "score" => candidates = PooledBatch)
    /\ [](pc = "prune" =>
            scored_candidates = [j \in 1..Len(PooledBatch) |->
                                    compute_score(problem, PooledBatch[j])])
    /\ [][PruneDone =>
            candidates' = SubSeq(StableDescending(scored_candidates), 1,
                                 Min(BeamSize, Len(PooledBatch)))]_vars

(* The second task of a round finished first, and the two tasks returned   *)
(* different candidates.                                                   *)
C18_Witness ==
    /\ pc = "score" /\ arrival = <<2, 1>>
    /\ branches[1].candidates # <<>> /\ branches[2].candidates # <<>>
    /\ branches[1].candidates # branches[2].candidates

----------------------------------------------------------------------------
(* C19: compute_score checks the operands first: an expression whose       *)
(* literals are not the problem's numbers gets score 0 and the             *)
(* operand-mismatch feedback, whether it would evaluate, hit 24, underflow *)
(* or divide by zero.                                                      *)
C19_OperandsCheckedFirst ==
    (Scored /\ ~OperandsMatch(TheTokens, problem)) =>
        /\ TheScored.candidate = TheTokens
        /\ TheScored.score = Zero
        /\ TheScored.feedback = [kind |-> "MustUseAll", val |-> Zero, err |-> ""]

(* 4 1 1 - / scored for 1 1 4 6: the 6 is missing and the evaluation would *)
(* divide by zero.                                                         *)
C19_Witness ==
    /\ Scored /\ problem = <<1, 1, 4, 6>>
    /\ TheTokens = <<Lit(4), Lit(1), Lit(1), Op("-"), Op("/")>>
    /\ ~compute(TheTokens).ok
    /\ TheScored.score = Zero

(* C20: compute_score gives score 1.0 exactly to the candidates whose       *)
(* literals match the problem and whose expression is a well-formed RPN    *)
(* expression of value 24.                                                 *)
C20_ScoreOneIffSolution ==
    Scored =>
        (TheScored.score = One
            <=> /\ OperandsMatch(TheTokens, problem)
                /\ WellFormed(TheTokens)
                /\ compute(TheTokens).ok
                /\ compute(TheTokens).val = RInt(Target))

(* C21: Equation.compute returns a value only for a well-formed RPN        *)
(* expression: a token list whose evaluation leaves more or fewer than one *)
(* value on the stack makes it raise.                                      *)
C21_ComputeRaisesUnlessBalanced ==
    Computed => (result.ok => WellFormed(TheTokens))

(* C22: when the literals match the problem and the evaluation fails, on   *)
(* an operator that finds fewer than two values or on a division by zero,  *)
(* compute_score returns the candidate with score 0 and a feedback that    *)
(* carries the error, and the score node goes on to score the candidate    *)
(* that follows.                                                           *)
UnderflowOrZeroDivision(tokens) ==
    /\ ~compute(tokens).ok
    /\ compute(tokens).err \in {"IndexError('pop from empty list')",
                                "ZeroDivisionError('float division by zero')"}

FollowerScored ==
    /\ Len(scored_candidates) = 2
    /\ scored_candidates[2].candidate = Follower.candidate
    /\ IF problem = <<1, 1, 4, 6>>
       THEN /\ scored_candidates[2].score = <<1, 13>>
            /\ scored_candidates[2].feedback.kind = "Result"
            /\ scored_candidates[2].feedback.val = RInt(12)
       ELSE /\ scored_candidates[2].score = Zero
            /\ scored_candidates[2].feedback.kind = "MustUseAll"

C22_EvaluationFailureScoresZero ==
    (Scored /\ OperandsMatch(TheTokens, problem) /\ UnderflowOrZeroDivision(TheTokens))
        => /\ TheScored.candidate = TheTokens
           /\ TheScored.score = Zero
           /\ TheScored.feedback.kind = "Invalid"
           /\ TheScored.feedback.err = compute(TheTokens).err
           /\ FollowerScored

(* 4 6 1 1 - / * scored for 1 1 4 6: the literals match, the division is   *)
(* by zero.                                                                *)
C22_Witness ==
    /\ Scored /\ problem = <<1, 1, 4, 6>>
    /\ TheTokens = F_zero
    /\ compute(TheTokens).err = "ZeroDivisionError('float division by zero')"
    /\ TheScored.score = Zero /\ TheScored.feedback.kind = "Invalid"
    /\ FollowerScored

(* * 1 1 4 6 scored for 1 1 4 6: the literals match, the operator finds an *)
(* empty stack.                                                            *)
C22_UnderflowReached ==
    /\ Scored /\ problem = <<1, 1, 4, 6>>
    /\ TheTokens = <<Op("*"), Lit(1), Lit(1), Lit(4), Lit(6)>>
    /\ compute(TheTokens).err = "IndexError('pop from empty list')"
    /\ TheScored.score = Zero

(* The reference value of a well-formed RPN expression, read as a tree     *)
(* from its last token: an operator's right operand is the sub-expression  *)
(* that ends just before it, its left operand the sub-expression before    *)
(* that one. SubStart is the first position of the sub-expression that     *)
(* ends at j.                                                              *)
RECURSIVE SubStartFrom(_, _, _)
SubStartFrom(tokens, j, need) ==
    LET n == IF IsFloat(tokens[j]) THEN need - 1 ELSE need + 1
    IN  IF n = 0 THEN j ELSE SubStartFrom(tokens, j - 1, n)

SubStart(tokens, j) == SubStartFrom(tokens, j, 1)

RECURSIVE RefEval(_, _)
RefEval(tokens, j) ==
    IF IsFloat(tokens[j]) THEN Value(RInt(tokens[j].n))
    ELSE LET r == SubStart(tokens, j - 1)
             right == RefEval(tokens, j - 1)
             left == RefEval(tokens, r - 1)
         IN  IF ~left.ok \/ ~right.ok THEN Raise("undefined")
             ELSE CASE tokens[j].o = "+" -> Value(RAdd(left.val, right.val))
                    [] tokens[j].o = "-" -> Value(RSub(left.val, right.val))
                    [] tokens[j].o = "*" -> Value(RMul(left.val, right.val))
                    [] tokens[j].o = "/" -> IF right.val[1] = 0 THEN Raise("undefined")
                                            ELSE Value(RDiv(left.val, right.val))

Reference(tokens) == RefEval(tokens, Len(tokens))

(* C23: at each operator Equation.compute takes the value pushed earlier   *)
(* as the left operand and the value pushed later as the right operand:    *)
(* a b - is a - b, a b / is a / b, and a well-formed expression evaluates  *)
(* to its reference value (and fails exactly when that is undefined).      *)
C23_OperandOrder ==
    (Computed /\ WellFormed(TheTokens)) =>
        /\ result.ok = Reference(TheTokens).ok
        /\ result.ok => result.val = Reference(TheTokens).val
        /\ \A a, b \in {1, 4, 6} :
              /\ TheTokens = <<Lit(a), Lit(b), Op("-")>> => result.val = <<a - b, 1>>
              /\ TheTokens = <<Lit(a), Lit(b), Op("/")>> => result.val = Rat(a, b)

(* 6 4 1 - / is 6 / (4 - 1) = 2.                                           *)
C23_Witness ==
    /\ Computed
    /\ TheTokens = <<Lit(6), Lit(4), Lit(1), Op("-"), Op("/")>>
    /\ result.ok /\ result.val = RInt(2)

(* The problems that have the same numbers, each as often, in any order.   *)
Orderings(numbers) ==
    {q \in [1..Len(numbers) -> Range(numbers)] :
        \A n \in Range(numbers) : CountIn(q, n) = CountIn(numbers, n)}

(* C24: compute_score depends on the problem only through the multiset of  *)
(* its numbers: for every ordering of the problem's numbers the candidate  *)
(* gets the same score and the same feedback.                              *)
C24_ScoreIgnoresNumberOrder ==
    Scored => \A q \in Orderings(problem) : compute_score(q, candidates[1]) = TheScored

(* 4 6 * 1 * 1 * scores 1.0 for 1 1 4 6 and for 6 4 1 1.                   *)
C24_Witness ==
    /\ Scored /\ problem = <<1, 1, 4, 6>> /\ TheTokens = F_solution
    /\ TheScored.score = One
    /\ <<6, 4, 1, 1>> \in Orderings(problem)
    /\ compute_score(<<6, 4, 1, 1>>, candidates[1]).score = One

(* The scored list the score node left for prune.                          *)
ScoredBatch == pc = "prune"

(* C25: scoring is deterministic and idempotent: two candidates with the   *)
(* same expression in one batch get identical scored values, and a         *)
(* frontier member that is scored again in the next round keeps its        *)
(* expression, its score and its feedback.                                 *)
C25_RescoringChangesNothing ==
    ScoredBatch =>
        /\ \A i, j \in 1..Len(scored_candidates) :
              scored_candidates[i].candidate = scored_candidates[j].candidate
                  => scored_candidates[i] = scored_candidates[j]
        /\ Len(RoundFrontier) <= Len(scored_candidates)
        /\ \A j \in 1..Len(RoundFrontier) : scored_candidates[j] = RoundFrontier[j]

(* A frontier member with a result and a score was scored again in round   *)
(* 1, together with a proposal of the same expression.                     *)
C25_Witness ==
    /\ ScoredBatch /\ depth = 1
    /\ Len(RoundFrontier) = 1 /\ Len(scored_candidates) >= 2
    /\ RoundFrontier[1].feedback.kind = "Result"
    /\ RoundFrontier[1].score # Zero
    /\ scored_candidates[1] = RoundFrontier[1]
    /\ scored_candidates[2].candidate = RoundFrontier[1].candidate

(* |24 - r| and 1 / (1 + |24 - r|) for a rational r = num / den.           *)
Distance(r) == <<Abs(Target * r[2] - r[1]), r[2]>>
ProximityScore(r) == Rat(r[2], r[2] + Abs(Target * r[2] - r[1]))

(* The candidate's literals match the problem and its evaluation returns.  *)
Evaluates(tokens, numbers) == OperandsMatch(tokens, numbers) /\ compute(tokens).ok

(* C26: a candidate with matching operands that evaluates to r scores      *)
(* 1 / (1 + |24 - r|): more than 0, at most 1, 1 only for r = 24, and less *)
(* than any candidate that is strictly closer to 24; every score lies in   *)
(* [0, 1], and it is 0 only for an operand mismatch or a failed            *)
(* evaluation.                                                             *)
C26_ScoreIsProximityTo24 ==
    Scored =>
        /\ RGeq(TheScored.score, Zero) /\ RGeq(One, TheScored.score)
        /\ TheScored.score = Zero => ~Evaluates(TheTokens, problem)
        /\ Evaluates(TheTokens, problem) =>
              LET r == compute(TheTokens).val
              IN  /\ TheScored.score = ProximityScore(r)
                  /\ RLess(Zero, TheScored.score)
                  /\ TheScored.score = One => r = RInt(Target)
                  /\ \A f \in FullExpressions :
                        (Evaluates(f, problem)
                            /\ RLess(Distance(compute(f).val), Distance(r)))
                        => RLess(TheScored.score,
                                 compute_score(problem, Candidate(f)).score)

(* 4 6 * 1 + 1 + = 26 scores 1/3 for 1 1 4 6, less than 1 and more than    *)
(* the 1/13 of 1 1 + 4 + 6 + = 12.                                         *)
C26_Witness ==
    /\ Scored /\ problem = <<1, 1, 4, 6>> /\ TheTokens = F_over
    /\ compute(TheTokens).val = RInt(26)
    /\ TheScored.score = <<1, 3>>
    /\ compute_score(problem, Candidate(F_twelve)).score = <<1, 13>>

(* A step of the score superstep.                                          *)
ScoreStep == pc = "score" /\ pc' = "prune"

(* C27: the intermediate lists do not accumulate: right after SCORE the    *)
(* unscored candidate list is empty, and right after PRUNE the scored list *)
(* is empty and the candidate list is exactly the frontier pruned from     *)
(* that round's scored list, at most beam_size long.                       *)
C27_ListsAreReplaced ==
    [][/\ ScoreStep => candidates' = <<>>
       /\ PruneDone => /\ scored_candidates' = <<>>
                       /\ candidates' = prune(variant, State, config)
                       /\ Len(candidates') <= BeamSize]_vars

(* The second round ended: the frontier is the one survivor of that round, *)
(* not appended to the survivor of the first.                              *)
C27_Witness ==
    /\ pc = "end" /\ depth = 2 /\ BeamSize = 1
    /\ Len(RoundFrontier) = 1 /\ Len(ReturnedThisRound) >= 1
    /\ Len(candidates) = 1 /\ scored_candidates = <<>>

(* A run of the batch has just been started: nothing of it has run yet.    *)
RunStarts == pc = "expand" /\ steps = 0 /\ branches = <<Pending>>

(* A run of the batch is under way or has stopped.                         *)
InRun == pc \notin {"loop", "done", "evaluated"}

(* The expressions a run on the problem p can meet in the model.           *)
ExpressionsOf(p) == Pool(p) \cup Range(heuristic_equations(p))

(* C28: every run of a batch starts with depth 0 and empty candidate and   *)
(* scored lists although the runs share one thread_id, whether the earlier *)
(* run returned or raised; during the run depth counts the rounds of this  *)
(* run only and the lists hold expressions proposed for this problem only. *)
C28_BatchRunsStartFresh ==
    /\ RunStarts => (depth = 0 /\ candidates = <<>> /\ scored_candidates = <<>>)
    /\ InRun =>
          /\ depth = CompletedRounds
          /\ \A c \in Range(candidates) \cup Range(scored_candidates) :
                c.candidate \in ExpressionsOf(problem)

(* The second run starts after a run on another problem that returned a    *)
(* result at depth 1 or more.                                              *)
C28_Witness ==
    /\ RunStarts /\ Len(results) = 1
    /\ results[1].kind = "result" /\ results[1].depth >= 1
    /\ problem = <<1, 1, 1, 2>>
    /\ depth = 0 /\ candidates = <<>>

(* The second run starts after a run that was aborted by the ceiling       *)
(* error.                                                                  *)
C28_AbortedReached ==
    /\ RunStarts /\ Len(results) = 1
    /\ results[1].kind = "error" /\ results[1].feedback = "GraphRecursionError"
    /\ depth = 0 /\ candidates = <<>>

(* C29: the solved flag of the run result agrees with the termination      *)
(* check: a run whose frontier[0].score reached the threshold of the check *)
(* is reported solved, and a run reported solved had reached it.           *)
C29_SolvedAgreesWithController ==
    pc = "returned" =>
        (result.solved <=> RGeq(candidates[1].score, Configurable.threshold))

(* Every candidate the run holds: the candidate list, the scored list and  *)
(* what the expand tasks of the round returned.                            *)
CandidatePool == Range(candidates) \cup Range(scored_candidates) \cup Range(ReturnedThisRound)

(* C30: in the heuristic variant expand drops the proposals whose literals *)
(* are not the problem's numbers, so every candidate of the pool and of    *)
(* the frontier uses each number of the problem exactly once and none      *)
(* carries the operand-mismatch feedback.                                  *)
C30_HeuristicDropsMismatches ==
    variant = "heu" =>
        \A c \in CandidatePool :
            /\ OperandsMatch(c.candidate, problem)
            /\ c.feedback.kind # "MustUseAll"

(* Round 0 of the heuristic variant got two proposals and returned one:    *)
(* the other was dropped.                                                  *)
C30_Witness ==
    /\ variant = "heu" /\ pc = "score" /\ depth = 0
    /\ branches[1].answer = "ok" /\ branches[1].proposed = 2
    /\ Len(branches[1].candidates) = 1
    /\ candidates = branches[1].candidates

(* Every expand task of the round got an answer with equations, and none   *)
(* of the candidates the tasks returned has the problem's numbers as its   *)
(* literals (the heuristic variant has dropped such proposals already).    *)
AllProposalsMismatched ==
    \A i \in 1..Len(branches) :
        /\ branches[i].answer = "ok" /\ branches[i].proposed > 0
        /\ \A c \in Range(branches[i].candidates) : ~OperandsMatch(c.candidate, problem)

(* C31: when every candidate proposed in a round has operands that do not  *)
(* match the problem, the frontier after that round's PRUNE is empty and   *)
(* the run terminates; no member of a frontier that seeds another round    *)
(* has mismatched operands.                                                *)
C31_MismatchedNeverSeeds ==
    /\ [](\A i \in 1..Len(tasks) :
             IsSent(tasks[i]) => OperandsMatch(SentFor(tasks[i]).candidate, problem))
    /\ [][(PruneDone /\ AllProposalsMismatched) => (candidates' = <<>> /\ pc' = "end")]_vars

(* The task has been expanded (HeuristicSpec).                             *)
Expanded == pc = "expanded"
Seeded == "seed" \in DOMAIN tasks[1]

(* a b op c op d op                                                        *)
IsLeftDeep(tokens) ==
    /\ Len(tokens) = 7
    /\ \A i \in {1, 2, 4, 6} : IsFloat(tokens[i])
    /\ \A i \in {3, 5, 7} : ~IsFloat(tokens[i]) /\ tokens[i].o \in Range(Operators)

(* The heuristic candidates an expand showed to the proposal source.       *)
ShownHeuristics == branches[1].request.candidate.heuristics

(* C32: generate_heuristic_candidates returns at most 10 expressions, each *)
(* of the form a b op c op d op over a permutation of the problem's        *)
(* numbers, each evaluating without error to a value less than 10 away     *)
(* from 24; only an expand without a seed computes them, and they are what *)
(* it returns when the proposal source fails.                              *)
C32_HeuristicCandidates ==
    Expanded =>
        /\ Len(ShownHeuristics) <= 10
        /\ \A c \in Range(ShownHeuristics) :
              /\ IsLeftDeep(c.candidate)
              /\ OperandsMatch(c.candidate, problem)
              /\ WellFormed(c.candidate)
              /\ Reference(c.candidate).ok
              /\ RLess(Distance(Reference(c.candidate).val), RInt(10))
        /\ Seeded => ShownHeuristics = <<>>
        /\ branches[1].answer \in FailedAnswers =>
              branches[1].candidates = ShownHeuristics

(* 1 2 3 4 without a seed: ten candidates, the first one 1 2 + 3 + 4 *     *)
(* = 24.                                                                   *)
C32_Witness ==
    /\ Expanded /\ ~Seeded /\ problem = <<1, 2, 3, 4>>
    /\ branches[1].answer = "raises"
    /\ Len(ShownHeuristics) = 10
    /\ branches[1].candidates = ShownHeuristics
    /\ ShownHeuristics[1].candidate = LeftDeep(<<1, 2, 3, 4>>, <<"+", "+", "*">>)

(* The metrics of the batch have been computed.                            *)
Evaluated == pc = "evaluated"

(* The depths the report sums: those of the records with depth >= 0.       *)
CountedDepths ==
    LET counted == SelectSeq(results, LAMBDA r : r.depth >= 0)
    IN  [i \in 1..Len(counted) |-> RInt(counted[i].depth)]

(* C33: average_depth is the arithmetic mean of the depths the report      *)
(* counts, their sum divided by their number (rounded to two digits), so   *)
(* that an error record does not lower it.                                 *)
C33_AverageDepthIsMeanOfCounted ==
    (Evaluated /\ CountedDepths # <<>>) =>
        result.average_depth = round(RDiv(sum(CountedDepths), RInt(Len(CountedDepths))), 2)

(* C34: across the rounds of a run the best score of the frontier never    *)
(* decreases: after the PRUNE of a round that started from a non-empty     *)
(* frontier, the frontier is not empty and its first score is at least the *)
(* first score of the frontier the round started from.                     *)
C34_BestScoreNeverDecreases ==
    [][(PruneDone /\ RoundFrontier # <<>>)
          => /\ candidates' # <<>>
             /\ RGeq(candidates'[1].score, RoundFrontier[1].score)]_vars

(* The second round proposed a candidate other than the frontier member    *)
(* and the frontier member stayed first.                                   *)
C34_Witness ==
    /\ pc = "end" /\ depth = 2
    /\ Len(RoundFrontier) = 1
    /\ ReturnedThisRound # <<>>
    /\ \A c \in Range(ReturnedThisRound) : c.candidate # RoundFrontier[1].candidate
    /\ candidates[1] = RoundFrontier[1]
    /\ RLess(Zero, candidates[1].score)

(* C35: a run that terminates normally has completed at least one round    *)
(* and has 1 <= depth <= max(1, max_depth); if its frontier is not empty   *)
(* and its best score is below the threshold of the run configuration, it  *)
(* has depth = max(1, max_depth).                                          *)
C35_DepthAtTermination ==
    pc = "end" =>
        /\ CompletedRounds >= 1
        /\ 1 <= depth /\ depth <= max(1, Configurable.max_depth)
        /\ (candidates # <<>> /\ RLess(candidates[1].score, RunThreshold))
              => depth = max(1, Configurable.max_depth)

(* C36: the result of a run that terminated with a non-empty frontier has  *)
(* the score, the expression and the feedback of frontier[0], which is the *)
(* first member with the greatest score, and the number of completed       *)
(* rounds as its depth.                                                    *)
C36_ResultIsFrontierHead ==
    pc = "returned" =>
        /\ candidates # <<>>
        /\ \A c \in Range(candidates) : RGeq(candidates[1].score, c.score)
        /\ result.best_score = candidates[1].score
        /\ result.equation = candidates[1].candidate
        /\ result.feedback = candidates[1].feedback
        /\ result.depth = CompletedRounds

(* A frontier of two members with the same score: the result is the first. *)
C36_Witness ==
    /\ pc = "returned" /\ Len(candidates) = 2
    /\ candidates[1].score = candidates[2].score
    /\ candidates[1].candidate # candidates[2].candidate
    /\ result.equation = candidates[1].candidate
    /\ result.depth = 2

(* The puzzles of the batch that have a record, are being run or are still *)
(* to run.                                                                 *)
PuzzlesAccounted == Len(results) + Len(puzzles) + (IF InRun THEN 1 ELSE 0)

(* C37: run_tot_on_many_problems returns exactly one record per puzzle, in *)
(* puzzle order: every step keeps the number of puzzles accounted for, a   *)
(* run that stopped gets its record appended (the run result, or for a run *)
(* that raised a record with solved = false, best_score 0 and equation     *)
(* "ERROR"), the next puzzle of the list is run after it, and the records  *)
(* are returned only when no puzzle is left.                               *)
C37_OneRecordPerPuzzle ==
    [][/\ PuzzlesAccounted' = PuzzlesAccounted
       /\ Stopped =>
             /\ pc' = "loop"
             /\ Len(results') = Len(results) + 1
             /\ SubSeq(results', 1, Len(results)) = results
             /\ LET record == results'[Len(results')]
                IN  IF pc = "returned" THEN record = result
                    ELSE /\ record.kind = "error"
                         /\ record.solved = FALSE
                         /\ record.best_score = Zero
                         /\ record.equation = "ERROR"
                         /\ record.feedback = err
       /\ (pc = "loop" /\ puzzles # <<>>) =>
             (pc' = "expand" /\ problem' = Head(puzzles) /\ puzzles' = Tail(puzzles))
       /\ pc' = "done" => puzzles = <<>>]_vars

(* A batch of two puzzles returned two records: an error record for the    *)
(* first puzzle and a run result for the second.                           *)
C37_Witness ==
    /\ pc = "done" /\ Len(results) = 2 /\ puzzles = <<>>
    /\ results[1].kind = "error" /\ results[1].feedback = "GraphRecursionError"
    /\ results[2].kind = "result"

(* The expressions generate_heuristic_candidates enumerates for a problem, *)
(* and those of them that evaluate to a value less than 10 away from 24.   *)
Enumerated(p) == {LeftDeep(q, ops) : q \in Orderings(p), ops \in [1..3 -> Range(Operators)]}

Qualifying(p) ==
    {e \in Enumerated(p) :
        Reference(e).ok /\ RLess(Distance(Reference(e).val), RInt(HeuristicTolerance))}

(* C38: generate_heuristic_candidates returns the best of the enumerated   *)
(* candidates: when an enumerated expression evaluates to 24 the returned  *)
(* list has an expression that evaluates to 24, and no returned expression *)
(* is farther from 24 than a qualifying expression that was left out.      *)
C38_HeuristicsAreTheBest ==
    (Expanded /\ ~Seeded) =>
        LET returned == {c.candidate : c \in Range(ShownHeuristics)}
            exact(S) == \E e \in S : Reference(e).val = RInt(Target)
        IN  /\ exact(Qualifying(problem)) => exact(returned)
            /\ \A c \in returned : \A e \in Qualifying(problem) \ returned :
                  ~RLess(Distance(Reference(e).val), Distance(Reference(c).val))

====
